---- MODULE Spec2Model ----
(***************************************************************************)
(* Model of main.py: the ConnectionManager registry, the websocket         *)
(* sessions of websocket_endpoint that push progress messages through it,  *)
(* and the HTTP download of YouTubeDownloader.download_video.              *)
(***************************************************************************)
EXTENDS Naturals, Integers, Sequences, FiniteSets, TLC

\* ------------------------------------------------------------------ bounds
MaxDownloads == 2      \* inbound {type:"download"} messages handled in total
MaxOps == 4            \* length of a sequence of registry operations
MaxChunks == 2         \* chunks an upstream stream may produce

\* --------------------------------------------------------- program constants
NumTicks == 10         \* for i in range(1, 11)
TickStep == 10         \* "progress": i*10
BadRequest == 400      \* HTTPException(status_code=400, ...)
Ok == 200              \* StreamingResponse default status

Sessions == {1, 2}     \* the websocket connections the server sees
Channels == Sessions   \* session s owns WebSocket object s
ClientIds == {"client-1", "client-2"}
NoChannel == 0         \* client_id not in active_connections

\* ------------------------------------------------------------ the registry
\* ConnectionManager.__init__: an empty dict
EmptyRegistry == [id \in ClientIds |-> NoChannel]

\* ConnectionManager.connect after accept(): active_connections[client_id] = websocket
connect(reg, websocket, id) == [reg EXCEPT ![id] = websocket]

\* a disconnect that forgets to delete the entry
disconnect_keeps(reg, id) == [reg |-> reg, raised |-> FALSE]

\* a disconnect that deletes the entry without the membership test: KeyError
disconnect_unchecked(reg, id) ==
  [reg |-> [reg EXCEPT ![id] = NoChannel], raised |-> reg[id] = NoChannel]

\* ConnectionManager.disconnect: the dict it leaves, and whether it raised
disconnect(reg, id) ==
  IF reg[id] # NoChannel
  THEN [reg |-> [reg EXCEPT ![id] = NoChannel], raised |-> FALSE]
  ELSE [reg |-> reg, raised |-> FALSE]

\* a send_progress that indexes the dict without the membership test: KeyError
send_progress_unchecked(reg, id) ==
  [channel |-> reg[id], raised |-> reg[id] = NoChannel]

\* ConnectionManager.send_progress: the channel whose send_json is called
\* (NoChannel when the membership test fails and the call returns at once),
\* and whether the lookup raised
send_progress(reg, id) ==
  IF reg[id] # NoChannel
  THEN [channel |-> reg[id], raised |-> FALSE]
  ELSE [channel |-> NoChannel, raised |-> FALSE]

\* ------------------------------------------------------ extraction engine
NoSize == -1           \* f.get('filesize') is None
NoExt == ""            \* f.get('ext') is None or empty

\* What ydl.extract_info(url, download=False) can answer: it raises, or it
\* returns an info dict.  The engine is outside the program, so which answer
\* a call gets is not decided by the program.
Raises == [raises |-> TRUE, message |-> "Unsupported URL", title |-> "",
           ext |-> NoExt, duration_string |-> "", formats |-> << >>]
EngineAnswers ==
  { Raises,
    [raises |-> FALSE, message |-> "", title |-> "title", ext |-> "mp4",
     duration_string |-> "3:33",
     formats |-> << [format_id |-> "sb0", ext |-> NoExt, filesize |-> NoSize],
                    [format_id |-> "18", ext |-> "mp4", filesize |-> 1048576],
                    [format_id |-> "140", ext |-> "m4a", filesize |-> NoSize] >>],
    [raises |-> FALSE, message |-> "", title |-> "clip", ext |-> "webm",
     duration_string |-> "0:07",
     formats |-> << [format_id |-> "251", ext |-> "webm", filesize |-> 0] >>] }

\* ------------------------------------------------------------ format_size
\* A size is None or a non-negative integer.  Sizes run past 1024^4, which no
\* 32-bit integer holds, so an integer is kept as its digits in base 1024,
\* least significant first.  Every size below 2^53 is exact as a float, and so
\* is each division by 1024.0: the digits are the value the code computes with.
Kibi == 1024
Units == << "B", "KB", "MB", "GB" >>
None == [none |-> TRUE, digits |-> << >>]

RECURSIVE Digits(_)
Digits(n) == IF n = 0 THEN << >> ELSE << n % Kibi >> \o Digits(n \div Kibi)

\* the value f.get('filesize') hands to format_size
SizeOf(filesize) ==
  IF filesize = NoSize THEN None ELSE [none |-> FALSE, digits |-> Digits(filesize)]

RECURSIVE ValueOf(_)
ValueOf(ds) == IF ds = << >> THEN 0 ELSE Head(ds) + Kibi * ValueOf(Tail(ds))

Drop(ds, k) == IF Len(ds) > k THEN SubSeq(ds, k + 1, Len(ds)) ELSE << >>

RECURSIVE Times(_, _, _)
Times(ds, m, carry) ==
  IF ds = << >>
  THEN IF carry = 0 THEN << >>
       ELSE << carry % Kibi >> \o Times(<< >>, m, carry \div Kibi)
  ELSE LET t == Head(ds) * m + carry
       IN  << t % Kibi >> \o Times(Tail(ds), m, t \div Kibi)

\* "not size_bytes": None and 0 are both falsy
Falsy(size) == size.none \/ \A i \in 1..Len(size.digits) : size.digits[i] = 0

\* "size_bytes < 1024.0" after k divisions by 1024.0
Below(ds, k) == \A i \in (k + 2)..Len(ds) : ds[i] = 0

\* f"{size_bytes:.2f} {unit}" after k divisions: the value in hundredths,
\* rounded to the nearest, a tie to the even one
Rendered(ds, k, unit) ==
  LET m == Times(ds, 100, 0)
      q == ValueOf(Drop(m, k))
      top == IF k >= 1 /\ Len(m) >= k THEN m[k] ELSE 0
      restZero == \A i \in 1..(k - 1) : i <= Len(m) => m[i] = 0
      up == \/ top > Kibi \div 2
            \/ top = Kibi \div 2 /\ ~restZero
            \/ top = Kibi \div 2 /\ restZero /\ q % 2 = 1
      h == q + (IF up THEN 1 ELSE 0)
  IN  [placeholder |-> FALSE, whole |-> h \div 100, cents |-> h % 100, unit |-> unit]

NotAvailable == [placeholder |-> TRUE, whole |-> 0, cents |-> 0, unit |-> ""]

\* the for loop over the units, entered at unit k + 1
RECURSIVE UnitLoop(_, _)
UnitLoop(ds, k) ==
  IF k = Len(Units) THEN Rendered(ds, k, "TB")
  ELSE IF Below(ds, k) THEN Rendered(ds, k, Units[k + 1])
  ELSE UnitLoop(ds, k + 1)

\* YouTubeDownloader.format_size
format_size(size_bytes) ==
  IF Falsy(size_bytes) THEN NotAvailable ELSE UnitLoop(size_bytes.digits, 0)

\* the loop of get_video_info: keeps the formats whose 'ext' is truthy
RECURSIVE KeepFormats(_)
KeepFormats(fs) ==
  IF fs = << >> THEN << >>
  ELSE IF Head(fs).ext # NoExt
       THEN << [format_id |-> Head(fs).format_id, ext |-> Head(fs).ext,
                filesize |-> Head(fs).filesize,
                filesize_fmt |-> format_size(SizeOf(Head(fs).filesize))] >>
            \o KeepFormats(Tail(fs))
       ELSE KeepFormats(Tail(fs))

\* a get_video_info that answers a failed extraction with an empty dict
get_video_info_partial(answer) ==
  [raises |-> FALSE, status_code |-> Ok, detail |-> << >>,
   title |-> answer.title, duration_string |-> answer.duration_string,
   formats |-> KeepFormats(answer.formats)]

\* YouTubeDownloader.get_video_info on the engine's answer: the dict it
\* returns, or the HTTPException(400) it raises when the try block fails
get_video_info(answer) ==
  IF answer.raises
  THEN [raises |-> TRUE, status_code |-> BadRequest,
        detail |-> << "Error getting video info: ", answer.message >>,
        title |-> "", duration_string |-> "", formats |-> << >>]
  ELSE [raises |-> FALSE, status_code |-> Ok, detail |-> << >>,
        title |-> answer.title, duration_string |-> answer.duration_string,
        formats |-> KeepFormats(answer.formats)]

\* ----------------------------------------------------- progress messages
\* the three dicts websocket_endpoint passes to send_progress
StartedMsg ==
  [type |-> "progress", message |-> "Starting download...", progress |-> 0]
\* a tick that reports what is left instead of what is done
ProgressMsg_remaining(k) ==
  [type |-> "progress", message |-> "Downloading...",
   progress |-> (NumTicks - k) * TickStep]
ProgressMsg(k) ==
  [type |-> "progress", message |-> "Downloading...", progress |-> k * TickStep]
CompleteMsg(metadata) ==
  [type |-> "complete", message |-> "Download complete!",
   data |-> [title |-> metadata.title, duration |-> metadata.duration_string,
             formats |-> Len(metadata.formats)]]

\* stage 0 is the "Starting download..." message, stages 1..NumTicks the loop
\* iterations, stage NumTicks+1 the "complete" message
CompleteStage == NumTicks + 1
StageMsg(k, metadata) ==
  IF k = 0 THEN StartedMsg
  ELSE IF k <= NumTicks THEN ProgressMsg(k)
  ELSE CompleteMsg(metadata[1])

\* ------------------------------------------------------------------ state
VARIABLES
  active_connections,  \* manager.active_connections: client_id -> channel
  open,                \* open[c]: the connection behind WebSocket c is up
  received,            \* received[c]: what the client of channel c has been sent
                       \* of the retrieval its own session is handling
  pc,                  \* pc[s]: where the handler of session s is suspended
  client_id,           \* client_id[s]: the path parameter of session s
  stage,               \* stage[s]: the message being sent or slept before
  target,              \* target[s]: the channel whose send_json s is inside
  info,                \* info[s]: << what get_video_info returned >>, if it has
  outcome,             \* outcome[s]: how the handler of s ended
  downloads,           \* download messages taken by all sessions
  calls,               \* registry calls made by a direct caller
  last,                \* the last of those calls and what it did
  history,             \* history[id]: the connects and disconnects of id, in order
  sent_json,           \* sent_json[c]: what send_json of c was called with
  d_format,            \* the "format" query parameter of a GET /api/download
  d_state,             \* where the delivery of that request stands
  d_trace,             \* the states that delivery has been in, in order
  d_answer,            \* << what the engine answered extract_info for it >>
  d_upstream,          \* what the upstream stream has produced, in order
  d_response,          \* the response download_video left its caller with
  d_status,            \* the status line the client has been sent, 0 if none
  d_body,              \* the body chunks the client has been sent
  d_eof,               \* the body was ended the way a complete body ends
  size_bytes,          \* the argument of a call of format_size
  size_fmt,            \* << what that call returned >>, once it has
  i_answer,            \* << what the engine answered a GET /api/info >>
  i_status,            \* the status of the response to it, 0 if none yet
  i_detail,            \* the detail of its error response
  i_content            \* << the content of its JSONResponse >>

sessionVars == << open, received, pc, client_id, stage, target, info, outcome,
                  downloads >>
callerVars == << calls, last, history, sent_json >>
deliveryVars == << d_format, d_state, d_trace, d_answer, d_upstream, d_response,
                  d_status, d_body, d_eof >>
formatVars == << size_bytes, size_fmt >>
infoVars == << i_answer, i_status, i_detail, i_content >>
vars == << active_connections, sessionVars, callerVars, deliveryVars, formatVars,
          infoVars >>

NoId == ""
NoCall == [op |-> "none", id |-> NoId, arg |-> << >>, raised |-> FALSE]

\* the handlers suspended inside send_json of channel c
Writers(c) == {s \in Sessions : pc[s] = "send" /\ target[s] = c}

\* ---------------------------------------------------------- download_video
\* a download_video that picks the content type from the format asked for
download_video_by_format(answer, format_id) ==
  IF answer.raises
  THEN [raises |-> TRUE, status_code |-> BadRequest, format |-> "",
        media_type |-> "", filename |-> << >>, title |-> ""]
  ELSE [raises |-> FALSE, status_code |-> Ok,
        format |-> IF format_id = "" THEN "best" ELSE format_id,
        media_type |-> IF format_id = "18" THEN "video/mp4"
                       ELSE "application/octet-stream",
        filename |-> << answer.title, ".", answer.ext >>,
        title |-> answer.title]

\* a download_video that resolves the locator inside the generator, after the
\* response has been returned
download_video_lazy(answer, format_id) ==
  [raises |-> FALSE, status_code |-> Ok,
   format |-> IF format_id = "" THEN "best" ELSE format_id,
   media_type |-> "application/octet-stream",
   filename |-> << answer.title, ".", answer.ext >>, title |-> answer.title]

\* YouTubeDownloader.download_video on the engine's answer: the
\* StreamingResponse it returns, or the HTTPException(400) it raises when
\* anything inside the try block fails
download_video(answer, format_id) ==
  IF answer.raises
  THEN [raises |-> TRUE, status_code |-> BadRequest, format |-> "",
        media_type |-> "", filename |-> << >>, title |-> ""]
  ELSE [raises |-> FALSE, status_code |-> Ok,
        format |-> IF format_id = "" THEN "best" ELSE format_id,
        media_type |-> IF answer.ext = "mp4" THEN "video/mp4"
                       ELSE "application/octet-stream",
        filename |-> << answer.title, ".", answer.ext >>,
        title |-> answer.title]

\* a generate() that yields the first byte it ever read again and again
generate_stale(event) ==
  IF event.kind = "chunk" THEN [kind |-> "yield", chunk |-> "a"]
  ELSE IF event.kind = "exhausted" THEN [kind |-> "return", chunk |-> ""]
  ELSE [kind |-> "raise", chunk |-> ""]

\* a generate() that catches the upstream exception and stops
generate_swallows(event) ==
  IF event.kind = "chunk" THEN [kind |-> "yield", chunk |-> event.chunk]
  ELSE [kind |-> "return", chunk |-> ""]

\* What one step of the generator generate() does with what the upstream
\* stream does: generate has no handler of its own, so a chunk is yielded, the
\* end of the stream ends the generator and an exception leaves it.
generate(event) ==
  IF event.kind = "chunk" THEN [kind |-> "yield", chunk |-> event.chunk]
  ELSE IF event.kind = "exhausted" THEN [kind |-> "return", chunk |-> ""]
  ELSE [kind |-> "raise", chunk |-> ""]

SessionsIdle ==
  /\ open = [c \in Channels |-> TRUE]
  /\ received = [c \in Channels |-> << >>]
  /\ pc = [s \in Sessions |-> "init"]
  /\ client_id = [s \in Sessions |-> NoId]
  /\ stage = [s \in Sessions |-> 0]
  /\ target = [s \in Sessions |-> NoChannel]
  /\ info = [s \in Sessions |-> << >>]
  /\ outcome = [s \in Sessions |-> "running"]
  /\ downloads = 0

CallerIdle ==
  /\ calls = 0
  /\ last = NoCall
  /\ history = [id \in ClientIds |-> << >>]
  /\ sent_json = [c \in Channels |-> << >>]

NoResponse == [raises |-> FALSE, status_code |-> 0, format |-> "", media_type |-> "",
               filename |-> << >>, title |-> ""]

NoFormat == ""          \* format: Optional[str] = None
Formats == {NoFormat, "18"}

DeliveryIdle ==
  /\ d_state = "Requested"
  /\ d_upstream = << >>
  /\ d_trace = << "Requested" >>
  /\ d_answer = << >>
  /\ d_response = NoResponse
  /\ d_status = 0
  /\ d_body = << >>
  /\ d_eof = FALSE

\* no call of format_size has returned
FormatIdle == size_fmt = << >>

\* no GET /api/info has been answered
InfoIdle ==
  /\ i_answer = << >>
  /\ i_status = 0
  /\ i_detail = << >>
  /\ i_content = << >>

Init ==
  /\ active_connections = EmptyRegistry
  /\ SessionsIdle
  /\ CallerIdle
  /\ DeliveryIdle
  /\ d_format = NoFormat
  /\ FormatIdle
  /\ size_bytes = None
  /\ InfoIdle

\* a GET /api/download has arrived, with or without a "format"
InitDownload ==
  /\ active_connections = EmptyRegistry
  /\ SessionsIdle
  /\ CallerIdle
  /\ DeliveryIdle
  /\ d_format \in Formats
  /\ FormatIdle
  /\ size_bytes = None
  /\ InfoIdle

\* ------------------------------------------- websocket_endpoint, step by step
\* Where the handler is next suspended, from the point where the message of
\* stage k has been dealt with.  Code that runs between two awaits runs as one
\* step: a send_progress that finds the id absent returns without suspending.
\* `resolved` says that get_video_info was called and returned on the way.
Suspended(where, k, c, r) == [pc |-> where, stage |-> k, target |-> c, resolved |-> r]

AfterComplete(r) == Suspended("receive", 0, NoChannel, r)

AttemptComplete(reg, id) ==
  IF send_progress(reg, id).channel # NoChannel
  THEN Suspended("send", CompleteStage, send_progress(reg, id).channel, TRUE)
  ELSE AfterComplete(TRUE)

\* after the last tick: info = downloader.get_video_info(url); an
\* HTTPException is not a WebSocketDisconnect and leaves the handler
AfterLoop(reg, id, answer) ==
  IF get_video_info(answer).raises
  THEN Suspended("HTTPException", 0, NoChannel, FALSE)
  ELSE AttemptComplete(reg, id)

\* a handler that goes back to receive_json after the last tick
AfterStage_returns(reg, id, answer, k) ==
  IF k < NumTicks THEN Suspended("sleep", k + 1, NoChannel, FALSE)
  ELSE AfterComplete(FALSE)

AfterStage(reg, id, answer, k) ==
  IF k < NumTicks THEN Suspended("sleep", k + 1, NoChannel, FALSE)
  ELSE IF k = NumTicks THEN AfterLoop(reg, id, answer)
  ELSE AfterComplete(FALSE)

AttemptStage(reg, id, answer, k) ==
  IF send_progress(reg, id).channel # NoChannel
  THEN Suspended("send", k, send_progress(reg, id).channel, FALSE)
  ELSE AfterStage(reg, id, answer, k)

Suspensions == {"receive", "sleep", "send"}

\* the answers the engine may give in a step of s: it is asked only after the
\* last tick
Asked(s) == IF stage[s] = NumTicks THEN EngineAnswers ELSE {Raises}

\* the handler of s moves to `next`: suspended again, or left by an exception
\* that is not a WebSocketDisconnect; a handler that ends takes its connection
\* down with it
Move(s, next, answer) ==
  /\ pc' = [pc EXCEPT ![s] = IF next.pc \in Suspensions THEN next.pc ELSE "ended"]
  /\ stage' = [stage EXCEPT ![s] = next.stage]
  /\ target' = [target EXCEPT ![s] = next.target]
  /\ info' = [info EXCEPT ![s] =
                IF next.resolved THEN << get_video_info(answer) >> ELSE @]
  /\ outcome' = [outcome EXCEPT ![s] = IF next.pc \in Suspensions THEN @ ELSE next.pc]
  /\ open' = IF next.pc \in Suspensions THEN open ELSE [open EXCEPT ![s] = FALSE]

\* the except WebSocketDisconnect branch: manager.disconnect(client_id)
HandleDisconnect(s) ==
  /\ active_connections' = disconnect(active_connections, client_id[s]).reg
  /\ pc' = [pc EXCEPT ![s] = "ended"]
  /\ stage' = [stage EXCEPT ![s] = 0]
  /\ target' = [target EXCEPT ![s] = NoChannel]
  /\ outcome' = [outcome EXCEPT ![s] = "disconnected"]
  /\ open' = [open EXCEPT ![s] = FALSE]
  /\ UNCHANGED info

\* The path parameter a session may arrive with.  The registry treats all ids
\* alike, so the id of session 1 is called "client-1"; session 2 shares it or
\* has another.
PathIds(s) == IF s = 1 THEN {"client-1"} ELSE ClientIds

\* await manager.connect(websocket, client_id)
Connect(s, id) ==
  /\ pc[s] = "init"
  /\ id \in PathIds(s)
  /\ active_connections' = connect(active_connections, s, id)
  /\ client_id' = [client_id EXCEPT ![s] = id]
  /\ pc' = [pc EXCEPT ![s] = "receive"]
  /\ UNCHANGED << open, received, stage, target, info, outcome, downloads >>
  /\ UNCHANGED << callerVars, deliveryVars, formatVars, infoVars >>

\* the client of session s closes its connection
ClientClose(s) ==
  /\ pc[s] \notin {"init", "ended"}
  /\ open[s]
  /\ open' = [open EXCEPT ![s] = FALSE]
  /\ UNCHANGED << active_connections, received, pc, client_id, stage, target,
                  info, outcome, downloads >>
  /\ UNCHANGED << callerVars, deliveryVars, formatVars, infoVars >>

\* receive_json raises WebSocketDisconnect
ReceiveDisconnect(s) ==
  /\ pc[s] = "receive"
  /\ ~open[s]
  /\ HandleDisconnect(s)
  /\ UNCHANGED << received, client_id, downloads >>
  /\ UNCHANGED << callerVars, deliveryVars, formatVars, infoVars >>

\* receive_json returns a dict whose "type" is not "download"
ReceiveOther(s) ==
  /\ pc[s] = "receive"
  /\ open[s]
  /\ UNCHANGED vars

\* receive_json raises on text that is not JSON, or data.get fails on JSON
\* that is not an object
ReceiveMalformed(s) ==
  /\ pc[s] = "receive"
  /\ open[s]
  /\ Move(s, Suspended("receive_error", 0, NoChannel, FALSE), Raises)
  /\ UNCHANGED << active_connections, received, client_id, downloads >>
  /\ UNCHANGED << callerVars, deliveryVars, formatVars, infoVars >>

\* receive_json returns {"type": "download", "url": ...}
ReceiveDownload(s) ==
  /\ pc[s] = "receive"
  /\ open[s]
  /\ downloads < MaxDownloads
  /\ downloads' = downloads + 1
  /\ received' = [received EXCEPT ![s] = << >>]
  /\ pc' = [pc EXCEPT ![s] = AttemptStage(active_connections, client_id[s], Raises, 0).pc]
  /\ stage' = [stage EXCEPT ![s] = AttemptStage(active_connections, client_id[s], Raises, 0).stage]
  /\ target' = [target EXCEPT ![s] = AttemptStage(active_connections, client_id[s], Raises, 0).target]
  /\ info' = [info EXCEPT ![s] = << >>]
  /\ UNCHANGED << active_connections, open, client_id, outcome >>
  /\ UNCHANGED << callerVars, deliveryVars, formatVars, infoVars >>

\* asyncio.sleep(0.5) returns and the tick is sent
Wake(s) ==
  /\ pc[s] = "sleep"
  /\ \E answer \in Asked(s) :
       Move(s, AttemptStage(active_connections, client_id[s], answer, stage[s]), answer)
  /\ UNCHANGED << active_connections, received, client_id, downloads >>
  /\ UNCHANGED << callerVars, deliveryVars, formatVars, infoVars >>

\* send_json returns: the client of the channel has the message
SendDone(s) ==
  /\ pc[s] = "send"
  /\ open[target[s]]
  /\ received' = IF target[s] = s
                 THEN [received EXCEPT ![s] = Append(@, StageMsg(stage[s], info[s]))]
                 ELSE received
  /\ \E answer \in Asked(s) :
       Move(s, AfterStage(active_connections, client_id[s], answer, stage[s]), answer)
  /\ UNCHANGED << active_connections, client_id, downloads >>
  /\ UNCHANGED << callerVars, deliveryVars, formatVars, infoVars >>

\* send_json on a connection that is down: depending on the server and the
\* websocket library the call raises WebSocketDisconnect, raises another
\* exception, or returns with the message lost
SendFails(s) ==
  /\ pc[s] = "send"
  /\ ~open[target[s]]
  /\ \/ HandleDisconnect(s)
     \/ /\ Move(s, Suspended("send_error", 0, NoChannel, FALSE), Raises)
        /\ UNCHANGED active_connections
     \/ /\ \E answer \in Asked(s) :
             Move(s, AfterStage(active_connections, client_id[s], answer, stage[s]),
                  answer)
        /\ UNCHANGED active_connections
  /\ UNCHANGED << received, client_id, downloads >>
  /\ UNCHANGED << callerVars, deliveryVars, formatVars, infoVars >>

Next ==
  \/ \E s \in Sessions, id \in ClientIds : Connect(s, id)
  \/ \E s \in Sessions : ClientClose(s)
  \/ \E s \in Sessions : ReceiveDisconnect(s)
  \/ \E s \in Sessions : ReceiveOther(s)
  \/ \E s \in Sessions : ReceiveMalformed(s)
  \/ \E s \in Sessions : ReceiveDownload(s)
  \/ \E s \in Sessions : Wake(s)
  \/ \E s \in Sessions : SendDone(s)
  \/ \E s \in Sessions : SendFails(s)

Spec == Init /\ [][Next]_vars

\* ------------------------------------------- the registry, called directly
\* the messages a caller passes to send_progress
Messages == {StartedMsg, ProgressMsg(NumTicks)}

\* manager.connect(websocket, id)
CallConnect(websocket, id) ==
  /\ calls < MaxOps
  /\ calls' = calls + 1
  /\ active_connections' = connect(active_connections, websocket, id)
  /\ history' = [history EXCEPT ![id] = Append(@, "connect")]
  /\ last' = [op |-> "connect", id |-> id, arg |-> << >>, raised |-> FALSE]
  /\ UNCHANGED << sent_json, sessionVars, deliveryVars, formatVars,
                  infoVars >>

\* manager.disconnect(id)
CallDisconnect(id) ==
  /\ calls < MaxOps
  /\ calls' = calls + 1
  /\ active_connections' = disconnect(active_connections, id).reg
  /\ history' = [history EXCEPT ![id] = Append(@, "disconnect")]
  /\ last' = [op |-> "disconnect", id |-> id, arg |-> << >>,
              raised |-> disconnect(active_connections, id).raised]
  /\ UNCHANGED << sent_json, sessionVars, deliveryVars, formatVars,
                  infoVars >>

\* manager.send_progress(id, message), awaited to its end
CallSend(id, message) ==
  /\ calls < MaxOps
  /\ calls' = calls + 1
  /\ last' = [op |-> "send", id |-> id, arg |-> << message >>,
              raised |-> send_progress(active_connections, id).raised]
  /\ sent_json' =
       IF send_progress(active_connections, id).channel # NoChannel
       THEN [sent_json EXCEPT ![send_progress(active_connections, id).channel] =
               Append(@, message)]
       ELSE sent_json
  /\ UNCHANGED << active_connections, history, sessionVars, deliveryVars, formatVars,
                  infoVars >>

NextRegistry ==
  \/ \E c \in Channels, id \in ClientIds : CallConnect(c, id)
  \/ \E id \in ClientIds : CallDisconnect(id)
  \/ \E id \in ClientIds, m \in Messages : CallSend(id, m)

SpecRegistry == Init /\ [][NextRegistry]_vars

\* ------------------------------------------------------ GET /api/download
Bytes == {"a", "b", "c"}
UpstreamEvents ==
  [kind : {"chunk"}, chunk : Bytes] \cup
  {[kind |-> "exhausted", chunk |-> ""], [kind |-> "error", chunk |-> ""]}

Reach(state) ==
  /\ d_state' = state
  /\ d_trace' = Append(d_trace, state)

\* download(url, format) awaits download_video: the engine resolves the
\* locator or fails; an HTTPException becomes the 400 response
Resolve(answer) ==
  /\ d_state = "Requested"
  /\ d_answer' = << answer >>
  /\ d_response' = download_video(answer, d_format)
  /\ IF download_video(answer, d_format).raises
     THEN /\ Reach("Failed")
          /\ d_status' = download_video(answer, d_format).status_code
     ELSE /\ Reach("StreamOpened")
          /\ UNCHANGED d_status
  /\ UNCHANGED << d_format, d_upstream, d_body, d_eof >>
  /\ UNCHANGED << active_connections, sessionVars, callerVars, formatVars,
                  infoVars >>

\* the StreamingResponse sends its status line and headers
StartResponse ==
  /\ d_state = "StreamOpened"
  /\ Reach("Relaying")
  /\ d_status' = d_response.status_code
  /\ UNCHANGED << d_format, d_answer, d_upstream, d_response, d_body, d_eof >>
  /\ UNCHANGED << active_connections, sessionVars, callerVars, formatVars,
                  infoVars >>

\* the StreamingResponse takes the next item of generate(): a chunk is sent
\* on; at the end of the generator the body is ended; an exception out of the
\* generator leaves the response, and the server drops the connection with
\* the body unfinished
Relay(event) ==
  /\ d_state = "Relaying"
  /\ event.kind = "chunk" => Len(d_body) < MaxChunks
  /\ d_upstream' = Append(d_upstream, event)
  /\ IF generate(event).kind = "yield"
     THEN /\ d_body' = Append(d_body, generate(event).chunk)
          /\ UNCHANGED << d_state, d_trace, d_eof >>
     ELSE IF generate(event).kind = "return"
     THEN /\ Reach("Delivered")
          /\ d_eof' = TRUE
          /\ UNCHANGED d_body
     ELSE /\ Reach("Aborted")
          /\ UNCHANGED << d_body, d_eof >>
  /\ UNCHANGED << d_format, d_answer, d_response, d_status >>
  /\ UNCHANGED << active_connections, sessionVars, callerVars, formatVars,
                  infoVars >>

NextDownload ==
  \/ \E answer \in EngineAnswers : Resolve(answer)
  \/ StartResponse
  \/ \E event \in UpstreamEvents : Relay(event)

SpecDownload == InitDownload /\ [][NextDownload]_vars

\* ------------------------------------------------- a call of format_size
\* The sizes tried: None, 0, and every integer of up to MaxDigits digits in
\* base 1024 whose digits are among EdgeDigits.  They sit on and around every
\* power of 1024 up to 1024^MaxDigits, and 1048576 is one of them.
MaxDigits == 5
EdgeDigits == {0, 1, Kibi \div 2, Kibi - 1}
Sizes ==
  {None} \cup
  { [none |-> FALSE, digits |-> ds] :
      ds \in { d \in UNION { [1..n -> EdgeDigits] : n \in 0..MaxDigits } :
                 d = << >> \/ d[Len(d)] # 0 } }

InitFormat ==
  /\ active_connections = EmptyRegistry
  /\ SessionsIdle
  /\ CallerIdle
  /\ DeliveryIdle
  /\ d_format = NoFormat
  /\ FormatIdle
  /\ size_bytes \in Sizes
  /\ InfoIdle

\* format_size(size_bytes) runs and returns
Format ==
  /\ size_fmt = << >>
  /\ size_fmt' = << format_size(size_bytes) >>
  /\ UNCHANGED << size_bytes, active_connections, sessionVars, callerVars,
                  deliveryVars, infoVars >>

NextFormat == Format

SpecFormat == InitFormat /\ [][NextFormat]_vars

\* ------------------------------------------------------- GET /api/info
\* The info dicts extract_info can return for this endpoint: every list of up
\* to MaxFormats entries of FormatPool, in which two entries carry the same
\* format_id and one has no 'ext'; or it raises, with one of two messages.
MaxFormats == 3
FormatPool ==
  { [format_id |-> "18", ext |-> "mp4", filesize |-> 1048576],
    [format_id |-> "18", ext |-> "webm", filesize |-> 0],
    [format_id |-> "22", ext |-> "mp4", filesize |-> 1023],
    [format_id |-> "140", ext |-> "m4a", filesize |-> NoSize],
    [format_id |-> "sb0", ext |-> NoExt, filesize |-> NoSize] }
InfoAnswers ==
  { [raises |-> TRUE, message |-> m, title |-> "", ext |-> NoExt,
     duration_string |-> "", formats |-> << >>] :
      m \in {"Unsupported URL", "Video unavailable"} }
  \cup
  { [raises |-> FALSE, message |-> "", title |-> "title", ext |-> "mp4",
     duration_string |-> "3:33", formats |-> fs] :
      fs \in UNION { [1..n -> FormatPool] : n \in 0..MaxFormats } }

\* get_info: get_video_info runs to its end without suspending, then the
\* dict goes out as a JSONResponse; an HTTPException goes out as its status
\* and detail
get_info(answer) ==
  /\ i_answer = << >>
  /\ i_answer' = << answer >>
  /\ LET got == get_video_info(answer)
     IN  /\ i_status' = got.status_code
         /\ i_detail' = got.detail
         /\ i_content' = IF got.raises THEN << >> ELSE << got >>
  /\ UNCHANGED << active_connections, sessionVars, callerVars, deliveryVars,
                  formatVars >>

NextInfo == \E answer \in InfoAnswers : get_info(answer)

SpecInfo == Init /\ [][NextInfo]_vars

\* ================================================================ properties
Last(seq) == seq[Len(seq)]

\* the most recent connect or disconnect of id was a connect
LastWasConnect(id) == history[id] # << >> /\ Last(history[id]) = "connect"

\* the step is a call send_progress(id, ...)
IsSend(id) == calls' = calls + 1 /\ last'.op = "send" /\ last'.id = id

\* C1: after any sequence of connects and disconnects, send_progress(id, e)
\* hands e to a channel (the one registered last) if and only if the most
\* recent connect or disconnect of id was a connect; otherwise no channel is
\* handed anything.
C1_SendDeliversIffConnected ==
  [][\A id \in ClientIds :
       IsSend(id) =>
         IF LastWasConnect(id)
         THEN \E c \in Channels :
                /\ sent_json'[c] = Append(sent_json[c], last'.arg[1])
                /\ \A d \in Channels \ {c} : sent_json'[d] = sent_json[d]
         ELSE sent_json' = sent_json]_vars

C1_Witness ==
  /\ last.op = "send"
  /\ history[last.id] = << "connect", "disconnect", "connect" >>
  /\ \E c \in Channels : sent_json[c] = last.arg

\* C7: send_progress for an id that was never connected, or whose last
\* registry operation was a disconnect, raises nothing, hands the message to
\* no channel and leaves the registry as it was.
C7_SendToAbsentIsNoOp ==
  [][\A id \in ClientIds :
       (IsSend(id) /\ ~LastWasConnect(id)) =>
         /\ ~last'.raised
         /\ sent_json' = sent_json
         /\ active_connections' = active_connections]_vars

C7_Witness ==
  /\ last.op = "send"
  /\ ~last.raised
  /\ history[last.id] = << "connect", "disconnect" >>
  /\ \A c \in Channels : sent_json[c] = << >>

\* the session s leaves connect in this step, registered under id
Connects(s, id) == pc[s] = "init" /\ pc'[s] # "init" /\ client_id'[s] = id

\* C2: a connect for an id that is already registered is rejected and the id
\* stays mapped to the channel registered first.
C2_DuplicateConnectRejected ==
  [][\A s \in Sessions, id \in ClientIds :
       (Connects(s, id) /\ active_connections[id] # NoChannel) =>
         /\ active_connections'[id] = active_connections[id]
         /\ pc'[s] = "ended"]_vars

\* the events of the progress protocol, as the messages of websocket_endpoint
IsStarted(m) == m.type = "progress" /\ m.message = "Starting download..."
IsProgress(m) == m.type = "progress" /\ m.message = "Downloading..."
IsCompleted(m) == m.type = "complete"
IsFailed(m) == m.type \notin {"progress", "complete"}
IsTerminal(m) == IsCompleted(m) \/ IsFailed(m)

\* log is a prefix of Started, Progress(p1), ..., Progress(pn), terminal with
\* p1 <= ... <= pn <= 100
ValidRunPrefix(log) ==
  \A j \in 1..Len(log) :
    /\ j = 1 => IsStarted(log[j])
    /\ j > 1 => IsProgress(log[j]) \/ IsTerminal(log[j])
    /\ IsTerminal(log[j]) => j = Len(log)
    /\ (j > 1 /\ IsProgress(log[j])) => log[j].progress <= 100
    /\ (j > 2 /\ IsProgress(log[j])) => log[j - 1].progress <= log[j].progress

FullRun(log, metadata) ==
  /\ Len(log) >= 3
  /\ IsStarted(log[1])
  /\ \A j \in 2..(Len(log) - 1) :
       /\ IsProgress(log[j])
       /\ j > 2 => log[j - 1].progress < log[j].progress
  /\ log[Len(log) - 1].progress = 100
  /\ IsCompleted(Last(log))
  /\ Last(log).data.title = metadata.title
  /\ Last(log).data.formats = Len(metadata.formats)

\* C4: a session whose metadata resolved and whose connection stayed up has,
\* once it awaits the next message, been sent one Started, progress strictly
\* increasing to 100 and one Completed with the title and the variant count.
C4_ResolvedRetrievalFullyReported ==
  \A s \in Sessions :
    (pc[s] = "receive" /\ open[s] /\ info[s] # << >>) =>
      FullRun(received[s], info[s][1])

\* C5: a retrieval that was started and whose metadata resolution failed has
\* a Failed event as the last thing its channel was sent.
C5_FailedResolutionReported ==
  \A s \in Sessions :
    (outcome[s] = "HTTPException" /\ received[s] # << >>) =>
      IsFailed(Last(received[s]))

\* C6: once the handler of a session has ended, for whatever reason, its
\* channel is no longer in the registry.
C6_EndedSessionUnregistered ==
  \A s \in Sessions :
    pc[s] = "ended" => active_connections[client_id[s]] # s

\* C8: no channel has two handlers inside its send_json at the same time.
C8_OneWriterPerChannel ==
  \A c \in Channels : Cardinality(Writers(c)) <= 1

\* C9: when the engine fails to resolve the locator, the download goes from
\* Requested to Failed with a 400 and nothing else: no 200 status line, no
\* body byte, never StreamOpened or Relaying.
C9_FailedResolutionSendsNothing ==
  (d_answer # << >> /\ d_answer[1].raises) =>
    /\ d_state = "Failed"
    /\ d_trace = << "Requested", "Failed" >>
    /\ d_status = BadRequest
    /\ d_body = << >>
    /\ ~d_eof

C9_Witness ==
  /\ d_answer # << >>
  /\ d_answer[1].raises
  /\ d_state = "Failed"

\* the upstream stream has raised
UpstreamRaised == d_upstream # << >> /\ Last(d_upstream).kind = "error"

\* C10: when the upstream stream raises after the status line has been sent,
\* the delivery is Aborted, never Delivered, and the body is not ended the way
\* a complete body ends.
C10_MidStreamFailureAborts ==
  UpstreamRaised =>
    /\ d_status = Ok
    /\ d_state = "Aborted"
    /\ ~d_eof
    /\ \A j \in 1..Len(d_trace) : d_trace[j] # "Delivered"

C10_Witness ==
  /\ UpstreamRaised
  /\ d_state = "Aborted"
  /\ Len(d_body) >= 1

\* the chunks among what the upstream stream produced, in order
RECURSIVE ChunksOf(_)
ChunksOf(events) ==
  IF events = << >> THEN << >>
  ELSE IF Head(events).kind = "chunk"
       THEN << Head(events).chunk >> \o ChunksOf(Tail(events))
       ELSE ChunksOf(Tail(events))

\* the upstream stream has ended without an error
UpstreamExhausted == d_upstream # << >> /\ Last(d_upstream).kind = "exhausted"

\* C11: the client has at every moment been sent exactly the chunks the
\* upstream stream has produced so far, in the order produced; and once the
\* stream has ended without an error the delivery is Delivered with the body
\* properly ended.
C11_ChunksRelayedInOrder ==
  /\ d_body = ChunksOf(d_upstream)
  /\ UpstreamExhausted =>
       /\ d_state = "Delivered"
       /\ d_eof
       /\ d_status = Ok

C11_Witness ==
  /\ UpstreamExhausted
  /\ d_state = "Delivered"
  /\ d_body = << "b", "a" >>

\* C12: the framing of a response that download_video returned depends on the
\* metadata alone: the content type is video/mp4 exactly when the container
\* extension is "mp4" and application/octet-stream otherwise, and the file
\* name is the title, a dot and the extension.
C12_FramingFromMetadata ==
  (d_answer # << >> /\ ~d_answer[1].raises) =>
    /\ ~d_response.raises
    /\ d_response.status_code = Ok
    /\ d_response.media_type \in {"video/mp4", "application/octet-stream"}
    /\ d_response.media_type = "video/mp4" <=> d_answer[1].ext = "mp4"
    /\ Len(d_response.filename) = 3
    /\ d_response.filename[1] = d_answer[1].title
    /\ d_response.filename[2] = "."
    /\ d_response.filename[3] = d_answer[1].ext

C12_Witness ==
  /\ d_state = "Relaying"
  /\ d_format = "18"
  /\ d_answer[1].ext = "webm"
  /\ d_response.media_type = "application/octet-stream"

\* the unit whose band a size lies in: B below 1024, KB below 1024^2, MB
\* below 1024^3, GB below 1024^4, TB from there on
BandOf(ds) ==
  IF Len(ds) <= 1 THEN "B"
  ELSE IF Len(ds) <= Len(Units) THEN Units[Len(ds)]
  ELSE "TB"

Formatted == size_fmt # << >>

\* C13: every size that is an integer, 0 included, is rendered as a number
\* with the unit of the band it lies in; 1048576 is rendered as "1.00 MB".
C13_RenderedInItsBand ==
  (Formatted /\ ~size_bytes.none) =>
    /\ ~size_fmt[1].placeholder
    /\ size_fmt[1].unit = BandOf(size_bytes.digits)
    /\ size_bytes.digits = << 0, 0, 1 >> =>
         size_fmt[1] = [placeholder |-> FALSE, whole |-> 1, cents |-> 0,
                        unit |-> "MB"]

\* C14: format_size returns "N/A" exactly when the size is None.
C14_PlaceholderIffNone ==
  Formatted => (size_fmt[1].placeholder <=> size_bytes.none)

\* what C13 and C14 have in common away from 0: a positive size is rendered
\* in its band, None as the placeholder
PositiveSizesInBand ==
  Formatted =>
    IF size_bytes.none THEN size_fmt[1].placeholder
    ELSE size_bytes.digits # << >> =>
           /\ ~size_fmt[1].placeholder
           /\ size_fmt[1].unit = BandOf(size_bytes.digits)

Answered == i_answer # << >>

\* C15: when the engine fails during a GET /api/info the response is a 400
\* whose detail carries the engine's message, and no metadata goes out, not
\* even in part; metadata goes out only when the extraction succeeded.
C15_FailedExtractionIs400 ==
  Answered =>
    /\ i_answer[1].raises =>
         /\ i_status = BadRequest
         /\ i_content = << >>
         /\ i_detail # << >>
         /\ Last(i_detail) = i_answer[1].message
    /\ i_content # << >> =>
         /\ ~i_answer[1].raises
         /\ i_status = Ok
         /\ i_detail = << >>
         /\ i_content[1].title = i_answer[1].title

C15_Witness ==
  /\ Answered
  /\ i_answer[1].raises
  /\ i_status = BadRequest
  /\ i_detail = << "Error getting video info: ", "Video unavailable" >>

\* C17: in the metadata a GET /api/info returns, no two entries of 'formats'
\* have the same format_id.
C17_FormatIdsUnique ==
  i_content # << >> =>
    LET fs == i_content[1].formats
    IN  \A i, j \in 1..Len(fs) : fs[i].format_id = fs[j].format_id => i = j

\* the same, for the answers in which the engine's own ids are distinct
C17_UniqueWhenEngineUnique ==
  (/\ i_content # << >>
   /\ LET given == i_answer[1].formats
      IN  \A i, j \in 1..Len(given) :
            given[i].format_id = given[j].format_id => i = j) =>
    LET fs == i_content[1].formats
    IN  \A i, j \in 1..Len(fs) : fs[i].format_id = fs[j].format_id => i = j

IsDisconnect(id) == calls' = calls + 1 /\ last'.op = "disconnect" /\ last'.id = id

\* C16: disconnect(id) raises nothing and leaves id unregistered and every
\* other id registered as it was; for an id that is not registered it changes
\* nothing; and a second disconnect(id) right after the first leaves the
\* registry as the first left it.
C16_DisconnectIdempotent ==
  [][\A id \in ClientIds :
       IsDisconnect(id) =>
         /\ ~last'.raised
         /\ active_connections'[id] = NoChannel
         /\ \A other \in ClientIds \ {id} :
              active_connections'[other] = active_connections[other]
         /\ active_connections[id] = NoChannel =>
              active_connections' = active_connections
         /\ (last.op = "disconnect" /\ last.id = id) =>
              active_connections' = active_connections
         /\ disconnect(active_connections', id).reg = active_connections'
         /\ ~disconnect(active_connections', id).raised]_vars

C16_Witness ==
  /\ last.op = "disconnect"
  /\ ~last.raised
  /\ history[last.id] = << "connect", "disconnect", "disconnect" >>
  /\ \E other \in ClientIds \ {last.id} :
       /\ history[other] = << "connect" >>
       /\ active_connections[other] # NoChannel

\* C18: every session that has left connect and has not ended has its own
\* channel registered under its id, so no connect or disconnect of another
\* session has replaced or removed it.
C18_LiveSessionRegistered ==
  \A s \in Sessions :
    pc[s] \in Suspensions => active_connections[client_id[s]] = s

\* the handler of s takes a download message in this step
Takes(s) == downloads' = downloads + 1 /\ pc[s] = "receive" /\ info'[s] = << >>
            /\ (pc'[s] # pc[s] \/ stage'[s] # stage[s])

\* the handler of s is between taking a download message and the end of it
InRetrieval(s) == pc[s] \in {"sleep", "send"}

\* C19: a session handles its download messages one after another.  It is
\* back at receive_json only after connect or after the complete message of
\* the retrieval in hand was passed to send_progress and that call returned;
\* a download message is taken only there, with no send of the session
\* pending; inside a retrieval the messages go out in their order, each after
\* the one before; and when the client has been sent the complete message the
\* session is at receive_json again.
C19_OneRetrievalAtATime ==
  [][\A s \in Sessions :
       /\ (pc'[s] = "receive" /\ pc[s] # "receive") =>
            \/ pc[s] = "init"
            \/ /\ info'[s] # << >>
               /\ \/ pc[s] = "send" /\ stage[s] = CompleteStage
                  \/ /\ stage[s] = NumTicks
                     /\ send_progress(active_connections, client_id[s]).channel
                          = NoChannel
       /\ Takes(s) => ~InRetrieval(s) /\ target[s] = NoChannel /\ InRetrieval(s)'
       /\ (InRetrieval(s) /\ InRetrieval(s)') =>
            \/ stage'[s] = stage[s] + 1 /\ pc[s] = "send" /\ pc'[s] = "sleep"
            \/ stage'[s] = stage[s] + 1 /\ pc[s] = "sleep" /\ pc'[s] = "sleep"
                 /\ active_connections[client_id[s]] = NoChannel
            \/ stage'[s] = stage[s] /\ pc[s] = "sleep" /\ pc'[s] = "send"
            \/ stage'[s] = CompleteStage /\ stage[s] = NumTicks
                 /\ pc[s] = "send" /\ pc'[s] = "send"
            \/ stage'[s] = stage[s] /\ pc'[s] = pc[s]
       /\ (received'[s] # received[s] /\ received'[s] # << >>) =>
            /\ pc[s] = "send" /\ target[s] = s
            /\ IsCompleted(Last(received'[s])) => pc'[s] = "receive"]_vars

C19_Witness ==
  \E s \in Sessions :
    /\ downloads = MaxDownloads
    /\ \A other \in Sessions \ {s} : pc[other] = "init"
    /\ pc[s] = "receive"
    /\ open[s]
    /\ info[s] # << >>
    /\ received[s] # << >>
    /\ IsCompleted(Last(received[s]))

====
